---- MODULE Spec2Model ----
(***************************************************************************)
(* Model of the form-submission handler of src/api/submit.js.              *)
(*                                                                         *)
(* A request is handled by one invocation of handler(req, res).  The       *)
(* handler runs synchronously up to its first await, and then resumes      *)
(* after each outbound call (the CAPTCHA verifier, the store's select, the *)
(* store's insert) completes.  Each action below is one such run: an       *)
(* outbound call completing together with the handler code that runs up    *)
(* to the next await or to the response.  Invocations interleave between   *)
(* these runs and share only the store's table.                            *)
(***************************************************************************)
EXTENDS Integers, Sequences, FiniteSets, TLC

\* Number of handler invocations in the concurrent specification.
NumReqs == 2

Reqs == 1..NumReqs

(***************************************************************************)
(* JavaScript values of the request body: undefined, a string, a number.   *)
(***************************************************************************)
Undef == [t |-> "undefined", s |-> ""]

Str(x) == [t |-> "string", s |-> x]

\* A truthy value that is not a string (it has no length, includes or split).
Num == [t |-> "number", s |-> "42"]

Truthy(v) == (v.t = "string" /\ v.s # "") \/ v.t = "number"

(***************************************************************************)
(* String functions used by the handler.                                   *)
(***************************************************************************)
CharAt(s, i) == SubSeq(s, i, i)

\* String.prototype.includes(c) for a one-character c
includes(s, c) == \E i \in 1..Len(s) : CharAt(s, i) = c

\* String.prototype.endsWith
endsWith(s, suf) ==
    /\ Len(suf) <= Len(s)
    /\ SubSeq(s, Len(s) - Len(suf) + 1, Len(s)) = suf

\* position of the first c in s at or after position from, Len(s)+1 if none
IndexFrom(s, c, from) ==
    IF \E i \in from..Len(s) : CharAt(s, i) = c
    THEN CHOOSE i \in from..Len(s) :
            /\ CharAt(s, i) = c
            /\ \A j \in from..(i - 1) : CharAt(s, j) # c
    ELSE Len(s) + 1

\* s.split(c)[1] for an s that includes c: the text between the first c and
\* the second c (or the end of s)
splitSecond(s, c) ==
    LET a == IndexFrom(s, c, 1)
        b == IndexFrom(s, c, a + 1)
    IN  SubSeq(s, a + 1, b - 1)

UpperLetters == "ABCDEFGHIJKLMNOPQRSTUVWXYZ"

LowerLetters == "abcdefghijklmnopqrstuvwxyz"

lowerChar(c) ==
    IF \E i \in 1..26 : CharAt(UpperLetters, i) = c
    THEN CharAt(LowerLetters, CHOOSE i \in 1..26 : CharAt(UpperLetters, i) = c)
    ELSE c

\* String.prototype.toLowerCase (ASCII letters)
RECURSIVE toLowerCase(_)
toLowerCase(s) ==
    IF Len(s) = 0 THEN ""
    ELSE lowerChar(CharAt(s, 1)) \o toLowerCase(SubSeq(s, 2, Len(s)))

(***************************************************************************)
(* The block lists.                                                        *)
(***************************************************************************)
BLOCKED_DOMAINS ==
    << "mailinator.com", "tempmail.com", "yopmail.com", "guerrillamail.com",
       "10minutemail.com", "sharklasers.com", "throwawaymail.com", "getnada.com" >>

BLOCKED_TLDS ==
    << ".xyz", ".icu", ".top", ".tk", ".ml", ".ga", ".cf", ".gq", ".ru", ".cn" >>

(***************************************************************************)
(* The gates of the handler, as functions of the request.                  *)
(***************************************************************************)
\* line 18
methodNotAllowed(method) == method # "POST"

\* line 27: honeypot && honeypot.length > 0
honeypotTripped(honeypot) == Truthy(honeypot) /\ honeypot.t = "string" /\ Len(honeypot.s) > 0

\* line 23: formData?.user_email
userEmailOf(q) == IF q.hasFormData THEN q.formData.user_email ELSE Undef

\* only the presence of user_email tested
emailInvalid_presenceOnly(user_email) == ~Truthy(user_email)

\* line 34, for a string or undefined user_email
emailInvalid(user_email) == ~Truthy(user_email) \/ ~includes(user_email.s, "@")

\* line 39
emailDomain(email) == toLowerCase(splitSecond(email, "@"))

\* line 40
isDisposable(domain) == \E i \in 1..Len(BLOCKED_DOMAINS) : BLOCKED_DOMAINS[i] = domain

\* line 41
isSuspiciousTLD(domain) == \E i \in 1..Len(BLOCKED_TLDS) : endsWith(domain, BLOCKED_TLDS[i])

\* line 43
emailBlocked(email) == isDisposable(emailDomain(email)) \/ isSuspiciousTLD(emailDomain(email))

\* line 34 on a truthy user_email that is not a string: includes is not a
\* function, the TypeError is caught at line 95
emailThrows(user_email) == Truthy(user_email) /\ user_email.t # "string"

\* the threshold excluded: score <= 0.5 fails
captchaFails_thresholdExcluded(v) ==
    \/ v.success # "true"
    \/ (v.hasScore /\ v.score <= 500)
    \/ ~(v.hasAction /\ v.action = "submit")

\* line 57: !success || score < 0.5 || action !== 'submit', the score in
\* thousandths; an absent score compares as NaN, and NaN < 0.5 is false
captchaFails(v) ==
    \/ v.success # "true"
    \/ (v.hasScore /\ v.score < 500)
    \/ ~(v.hasAction /\ v.action = "submit")

(***************************************************************************)
(* Responses: res.status(n).json(body).                                    *)
(***************************************************************************)
NoResponse == [status |-> 0, body |-> [error |-> ""]]

MethodNotAllowed == [status |-> 405, body |-> [error |-> "Method not allowed"]]

Success == [status |-> 200, body |-> [success |-> TRUE]]

InvalidEmail == [status |-> 400, body |-> [error |-> "Invalid email address."]]

ProfessionalEmail ==
    [status |-> 400, body |-> [error |-> "Please use a professional email address."]]

SecurityVerificationFailed ==
    [status |-> 403, body |-> [error |-> "Security verification failed. Please try again."]]

\* lines 71-73 (the source writes the apostrophe as U+2019)
Conflict ==
    [status |-> 409,
     body |-> [error |-> "We've already received a submission from this email address."]]

\* lines 84-86
ConflictAtInsert ==
    [status |-> 409,
     body |-> [error |-> "We've already received a submission from this email address."]]

InternalError == [status |-> 500, body |-> [error |-> "Internal server error"]]

(***************************************************************************)
(* Lines 16-53: the handler from its entry to the first await.  The result *)
(* is the response sent and the place the invocation is left at:          *)
(* "awaitCaptcha" when the verifier call is issued, "crashed" when         *)
(* req.body is undefined (line 22 destructures it outside the try block,   *)
(* so the handler's promise rejects and no response is sent).              *)
(***************************************************************************)
\* the honeypot tested after the email gates
syncRun_honeypotLate(q) ==
    IF methodNotAllowed(q.method) THEN [to |-> "done", res |-> MethodNotAllowed]
    ELSE IF ~q.hasBody THEN [to |-> "crashed", res |-> NoResponse]
    ELSE IF emailThrows(userEmailOf(q)) THEN [to |-> "done", res |-> InternalError]
    ELSE IF emailInvalid(userEmailOf(q)) THEN [to |-> "done", res |-> InvalidEmail]
    ELSE IF emailBlocked(userEmailOf(q).s) THEN [to |-> "done", res |-> ProfessionalEmail]
    ELSE IF honeypotTripped(q.honeypot) THEN [to |-> "done", res |-> Success]
    ELSE [to |-> "awaitCaptcha", res |-> NoResponse]

\* req.body destructured before the method is tested
syncRun_bodyFirst(q) ==
    IF ~q.hasBody THEN [to |-> "crashed", res |-> NoResponse]
    ELSE IF methodNotAllowed(q.method) THEN [to |-> "done", res |-> MethodNotAllowed]
    ELSE IF honeypotTripped(q.honeypot) THEN [to |-> "done", res |-> Success]
    ELSE IF emailThrows(userEmailOf(q)) THEN [to |-> "done", res |-> InternalError]
    ELSE IF emailInvalid(userEmailOf(q)) THEN [to |-> "done", res |-> InvalidEmail]
    ELSE IF emailBlocked(userEmailOf(q).s) THEN [to |-> "done", res |-> ProfessionalEmail]
    ELSE [to |-> "awaitCaptcha", res |-> NoResponse]

syncRun(q) ==
    IF methodNotAllowed(q.method) THEN [to |-> "done", res |-> MethodNotAllowed]
    ELSE IF ~q.hasBody THEN [to |-> "crashed", res |-> NoResponse]
    ELSE IF honeypotTripped(q.honeypot) THEN [to |-> "done", res |-> Success]
    ELSE IF emailThrows(userEmailOf(q)) THEN [to |-> "done", res |-> InternalError]
    ELSE IF emailInvalid(userEmailOf(q)) THEN [to |-> "done", res |-> InvalidEmail]
    ELSE IF emailBlocked(userEmailOf(q).s) THEN [to |-> "done", res |-> ProfessionalEmail]
    ELSE [to |-> "awaitCaptcha", res |-> NoResponse]

\* lines 53-54: the handler once fetch() has settled with f; a response
\* received has its body read by captchaResponse.json(), which is awaited
afterFetch(f) ==
    IF f = "rejected" THEN [to |-> "done", res |-> InternalError]
    ELSE [to |-> "awaitJson", res |-> NoResponse]

\* lines 54-64: the handler once captchaResponse.json() has settled with c
afterCaptcha(c) ==
    IF c.state = "threw" THEN [to |-> "done", res |-> InternalError]
    ELSE IF captchaFails(c) THEN [to |-> "done", res |-> SecurityVerificationFailed]
    ELSE [to |-> "awaitSelect", res |-> NoResponse]

\* an existing row answered as a repeated success
afterSelect_existingIsSuccess(x) ==
    IF x.state = "threw" THEN [to |-> "done", res |-> InternalError]
    ELSE IF x.data = "row" THEN [to |-> "done", res |-> Success]
    ELSE [to |-> "awaitInsert", res |-> NoResponse]

\* the insert attempted whatever the select found
afterSelect_insertAnyway(x) ==
    IF x.state = "threw" THEN [to |-> "done", res |-> InternalError]
    ELSE [to |-> "awaitInsert", res |-> NoResponse]

\* lines 64-77: the handler once the select has completed with x; the error
\* of the select's result is not read
afterSelect(x) ==
    IF x.state = "threw" THEN [to |-> "done", res |-> InternalError]
    ELSE IF x.data = "row" THEN [to |-> "done", res |-> Conflict]
    ELSE [to |-> "awaitInsert", res |-> NoResponse]

\* insertError not tested
afterInsert_errorIgnored(e) ==
    IF e.state = "threw" THEN InternalError ELSE Success

\* code 23505 not told apart from the other errors
afterInsert_conflictThrown(e) ==
    IF e.state = "threw" THEN InternalError
    ELSE IF e.code = "" THEN Success
    ELSE InternalError

\* the store's message sent to the caller
afterInsert_detailSent(e) ==
    IF e.state = "threw" THEN InternalError
    ELSE IF e.code = "" THEN Success
    ELSE IF e.code = "23505" THEN ConflictAtInsert
    ELSE [status |-> 500, body |-> [error |-> e.message]]

\* the unique violation answered as a repeated success
afterInsert_conflictIsSuccess(e) ==
    IF e.state = "threw" THEN InternalError
    ELSE IF e.code = "" THEN Success
    ELSE IF e.code = "23505" THEN Success
    ELSE InternalError

\* lines 77-97: the handler once the insert has completed with e
afterInsert(e) ==
    IF e.state = "threw" THEN InternalError
    ELSE IF e.code = "" THEN Success
    ELSE IF e.code = "23505" THEN ConflictAtInsert
    ELSE InternalError

(***************************************************************************)
(* State.                                                                  *)
(***************************************************************************)
VARIABLES
    pc,                      \* where each invocation is
    req,                     \* the request each invocation was given
    captchaResponse,         \* what fetch() of the verifier settled with
    captchaData,             \* what captchaResponse.json() settled with
    existingUser,            \* what the select completed with
    insertError,             \* what the insert completed with
    res,                     \* the response sent
    calls,                   \* calls issued and awaited by each invocation
    diagnostic_submissions,  \* the store's table: a set of formData rows
    priorAccepted,           \* history: at entry, a request with the same
                             \* user_email had been answered 200 by the insert
    rivals                   \* history: invocations with the same user_email
                             \* that were awaiting their insert when this
                             \* invocation's insert completed

vars ==
    << pc, req, captchaResponse, captchaData, existingUser, insertError, res, calls,
       diagnostic_submissions, priorAccepted, rivals >>

NoRequest ==
    [method |-> "", hasBody |-> FALSE, captchaToken |-> "", honeypot |-> Undef,
     hasFormData |-> FALSE, formData |-> [user_email |-> Undef, company |-> ""]]

NoCaptchaResponse == "none"

NoCaptchaData ==
    [state |-> "none", success |-> "undefined", hasScore |-> FALSE, score |-> 0,
     hasAction |-> FALSE, action |-> ""]

NoExistingUser == [state |-> "none", data |-> "null", error |-> FALSE]

NoInsertError == [state |-> "none", code |-> "", message |-> ""]

NoCalls == [verify |-> 0, json |-> 0, select |-> 0, insert |-> 0]

Init ==
    /\ pc = [r \in Reqs |-> "new"]
    /\ req = [r \in Reqs |-> NoRequest]
    /\ captchaResponse = [r \in Reqs |-> NoCaptchaResponse]
    /\ captchaData = [r \in Reqs |-> NoCaptchaData]
    /\ existingUser = [r \in Reqs |-> NoExistingUser]
    /\ insertError = [r \in Reqs |-> NoInsertError]
    /\ res = [r \in Reqs |-> NoResponse]
    /\ calls = [r \in Reqs |-> NoCalls]
    /\ diagnostic_submissions = {}
    /\ priorAccepted = [r \in Reqs |-> FALSE]
    /\ rivals = [r \in Reqs |-> {}]

\* the invocation's insert was accepted by the store and answered 200
acceptedByInsert(r) ==
    /\ pc[r] = "done"
    /\ insertError[r].state = "returned"
    /\ insertError[r].code = ""
    /\ res[r].status = 200

(***************************************************************************)
(* Receive: the handler is invoked with request q and runs to its first    *)
(* await (lines 16-53).                                                    *)
(***************************************************************************)
Receive(r, q) ==
    /\ pc[r] = "new"
    /\ pc' = [pc EXCEPT ![r] = syncRun(q).to]
    /\ req' = [req EXCEPT ![r] = q]
    /\ res' = [res EXCEPT ![r] = syncRun(q).res]
    /\ calls' = [calls EXCEPT ![r].verify = IF syncRun(q).to = "awaitCaptcha" THEN 1 ELSE 0]
    /\ priorAccepted' = [priorAccepted EXCEPT ![r] =
            \E o \in Reqs : acceptedByInsert(o) /\ userEmailOf(req[o]) = userEmailOf(q)]
    /\ UNCHANGED << captchaResponse, captchaData, existingUser, insertError,
                    diagnostic_submissions, rivals >>

(***************************************************************************)
(* FetchReturns: fetch() of the verifier settles with f, a response or a   *)
(* rejection, and the handler runs from the await of line 53 to the await  *)
(* of line 54, where it has called captchaResponse.json().                 *)
(***************************************************************************)
FetchResults == {"resolved", "rejected"}

FetchReturns(r, f) ==
    /\ pc[r] = "awaitCaptcha"
    /\ captchaResponse' = [captchaResponse EXCEPT ![r] = f]
    /\ pc' = [pc EXCEPT ![r] = afterFetch(f).to]
    /\ res' = [res EXCEPT ![r] = afterFetch(f).res]
    /\ calls' = [calls EXCEPT ![r].json = IF afterFetch(f).to = "awaitJson" THEN 1 ELSE 0]
    /\ UNCHANGED << req, captchaData, existingUser, insertError, diagnostic_submissions,
                    priorAccepted, rivals >>

(***************************************************************************)
(* CaptchaReturns: captchaResponse.json() settles with c (a JSON verdict,  *)
(* or the parse throwing) and the handler runs from the await of line 54   *)
(* to the await of lines 64-68.                                            *)
(***************************************************************************)
CaptchaReturns(r, c) ==
    /\ pc[r] = "awaitJson"
    /\ captchaData' = [captchaData EXCEPT ![r] = c]
    /\ pc' = [pc EXCEPT ![r] = afterCaptcha(c).to]
    /\ res' = [res EXCEPT ![r] = afterCaptcha(c).res]
    /\ calls' = [calls EXCEPT ![r].select = IF afterCaptcha(c).to = "awaitSelect" THEN 1 ELSE 0]
    /\ UNCHANGED << req, captchaResponse, existingUser, insertError,
                    diagnostic_submissions, priorAccepted, rivals >>

(***************************************************************************)
(* The store.  A select by user_email answers with the row that has it, or *)
(* with null; it can also fail, which the client reports as data null      *)
(* with an error, or by rejecting.  An insert is accepted when no row has  *)
(* the user_email (the unique constraint), is refused with code 23505      *)
(* when one has, and can also be refused for another reason or reject.     *)
(***************************************************************************)
rowsWith(user_email) == {row \in diagnostic_submissions : row.user_email = user_email}

selectResults(user_email) ==
    { [state |-> "returned",
       data |-> IF rowsWith(user_email) = {} THEN "null" ELSE "row",
       error |-> FALSE],
      [state |-> "returned", data |-> "null", error |-> TRUE],
      [state |-> "threw", data |-> "null", error |-> TRUE] }

OtherStoreErrors ==
    { [state |-> "returned", code |-> "23502",
       message |-> "null value in column \"company\" violates not-null constraint"],
      [state |-> "returned", code |-> "57014",
       message |-> "canceling statement due to statement timeout"],
      [state |-> "threw", code |-> "", message |-> "fetch failed"] }

insertResults(user_email) ==
    { IF rowsWith(user_email) = {}
      THEN [state |-> "returned", code |-> "", message |-> ""]
      ELSE [state |-> "returned", code |-> "23505",
            message |-> "duplicate key value violates unique constraint"] }
    \cup OtherStoreErrors

\* the insert's result e is the store accepting the row
accepted(e) == e.state = "returned" /\ e.code = ""

(***************************************************************************)
(* SelectReturns: the select completes with x and the handler runs lines   *)
(* 64-79.                                                                  *)
(***************************************************************************)
SelectReturns(r) ==
    /\ pc[r] = "awaitSelect"
    /\ \E x \in selectResults(userEmailOf(req[r])) :
        /\ existingUser' = [existingUser EXCEPT ![r] = x]
        /\ pc' = [pc EXCEPT ![r] = afterSelect(x).to]
        /\ res' = [res EXCEPT ![r] = afterSelect(x).res]
        /\ calls' = [calls EXCEPT ![r].insert =
                        IF afterSelect(x).to = "awaitInsert" THEN 1 ELSE 0]
    /\ UNCHANGED << req, captchaResponse, captchaData, insertError,
                    diagnostic_submissions, priorAccepted, rivals >>

\* a field of formData lost on the way to the store
insertedRow_fieldDropped(q) == [q.formData EXCEPT !.company = ""]

\* line 79: .insert([formData]), the row handed to the store
insertedRow(q) == q.formData

(***************************************************************************)
(* InsertReturns: the insert of formData completes with e, the store       *)
(* holding the row when it accepted it, and the handler runs lines 77-97.  *)
(***************************************************************************)
InsertReturns(r) ==
    /\ pc[r] = "awaitInsert"
    /\ \E e \in insertResults(userEmailOf(req[r])) :
        /\ insertError' = [insertError EXCEPT ![r] = e]
        /\ diagnostic_submissions' =
              IF accepted(e)
              THEN diagnostic_submissions \cup {insertedRow(req[r])}
              ELSE diagnostic_submissions
        /\ res' = [res EXCEPT ![r] = afterInsert(e)]
    /\ pc' = [pc EXCEPT ![r] = "done"]
    /\ rivals' = [rivals EXCEPT ![r] =
            {o \in Reqs \ {r} : pc[o] = "awaitInsert"
                                 /\ userEmailOf(req[o]) = userEmailOf(req[r])}]
    /\ UNCHANGED << req, captchaResponse, captchaData, existingUser, calls, priorAccepted >>

(***************************************************************************)
(* Inputs.                                                                 *)
(***************************************************************************)
Request(method, captchaToken, honeypot, hasFormData, user_email, company) ==
    [method |-> method, hasBody |-> TRUE, captchaToken |-> captchaToken,
     honeypot |-> honeypot, hasFormData |-> hasFormData,
     formData |-> [user_email |-> user_email, company |-> company]]

\* a request whose body is undefined
Bodyless(method) == [NoRequest EXCEPT !.method = method]

Verdict(success, hasScore, score, hasAction, action) ==
    [state |-> "json", success |-> success, hasScore |-> hasScore, score |-> score,
     hasAction |-> hasAction, action |-> action]

\* captchaResponse.json() rejecting (the body is not JSON), or line 57
\* throwing on a body that parses to null
VerifierThrew == [NoCaptchaData EXCEPT !.state = "threw"]

\* Requests of the concurrent specification: three valid submissions, two of
\* them with the same user_email, and one request stopped by each gate.
RaceRequests ==
    { Request("POST", "tok", Str(""), TRUE, Str("ann@corp.com"), "acme"),
      Request("POST", "tok", Undef, TRUE, Str("ann@corp.com"), "initech"),
      Request("POST", "tok", Str(""), TRUE, Str("bob@corp.com"), "acme"),
      Request("POST", "tok", Str("bot"), TRUE, Str("ann@corp.com"), "acme"),
      Request("POST", "tok", Str("bot"), TRUE, Str("nobody"), "acme"),
      Request("POST", "", Str("bot"), FALSE, Undef, ""),
      Request("POST", "", Str(" "), TRUE, Undef, "acme"),
      Request("POST", "tok", Str("bot"), TRUE, Num, "acme"),
      Request("POST", "tok", Str("bot"), TRUE, Str("bob@corp.com"), "initech"),
      Request("POST", "tok", Str("bot"), TRUE, Str("x@mailinator.com"), "acme"),
      Request("GET", "tok", Str("bot"), TRUE, Str("ann@corp.com"), "acme"),
      Request("GET", "tok", Str("bot"), TRUE, Str("nobody"), "acme"),
      Request("POST", "tok", Str(""), TRUE, Str("nobody"), "acme"),
      Request("POST", "tok", Str(""), TRUE, Str("x@mailinator.com"), "acme"),
      Bodyless("GET"),
      Bodyless("POST") }

RaceVerdicts ==
    { Verdict("true", TRUE, 900, TRUE, "submit"),
      Verdict("true", TRUE, 300, TRUE, "submit"),
      VerifierThrew }

\* Requests of the one-request specification of the gates of lines 16-47.
GateEmails ==
    { "", "plainaddress", "user@", "@", "user@example.com", "User@Example.COM",
      "user@mailinator.com", "user@MAILINATOR.COM", "user@Mailinator.Com",
      "user@sub.mailinator.com", "user@mailinator.com.au", "user@notmailinator.com",
      "user@tempmail.com", "user@getnada.com", "user@10MinuteMail.com",
      "user@example.xyz", "user@EXAMPLE.XYZ", "user@example.xyzz", "user@a.xyz.org",
      "user@site.ru", "user@.tk", "user@tk", "user@example.cn",
      "a@b@c.xyz", "a@c.xyz@b", "user@x@mailinator.com", "user@mailinator.com@x",
      "a@@b.com" }

GateMethods == {"POST", "GET", "PUT"}

GateHoneypots == {Undef, Str(""), Str("bot"), Str(" "), Num}

GateRequests ==
    { Bodyless(m) : m \in GateMethods }
    \cup { Request(m, "tok", h, FALSE, Undef, "") : m \in GateMethods, h \in GateHoneypots }
    \cup { Request(m, "tok", h, TRUE, e, "acme") :
              m \in GateMethods, h \in GateHoneypots,
              e \in {Undef, Num} \cup {Str(a) : a \in GateEmails} }

GateVerdicts ==
    { Verdict("true", TRUE, 500, TRUE, "submit"),
      Verdict("true", TRUE, 499, TRUE, "submit"),
      VerifierThrew }

\* Verdicts of the one-request specification of the CAPTCHA gate: every
\* score in thousandths, and each field also absent.
Scores == 0..1000

CaptchaVerdicts ==
    { Verdict(ok, TRUE, n, TRUE, a) :
          ok \in {"true", "false"}, n \in Scores, a \in {"submit", "other", "Submit", ""} }
    \cup { Verdict(ok, TRUE, n, FALSE, "") : ok \in {"true", "false"}, n \in Scores }
    \cup { Verdict(ok, FALSE, 0, TRUE, a) :
              ok \in {"true", "false", "undefined"}, a \in {"submit", "other"} }
    \cup { Verdict(ok, FALSE, 0, FALSE, "") : ok \in {"true", "false", "undefined"} }
    \cup { Verdict("undefined", TRUE, n, TRUE, "submit") : n \in {0, 500, 1000} }
    \cup { VerifierThrew }

CaptchaRequests ==
    { Request("POST", "tok", Str(""), TRUE, Str("ann@corp.com"), "acme") }

(***************************************************************************)
(* Specifications.                                                         *)
(***************************************************************************)
\* Concurrent invocations over the shared store.
Next ==
    \E r \in Reqs :
        \/ \E q \in RaceRequests : Receive(r, q)
        \/ \E f \in FetchResults : FetchReturns(r, f)
        \/ \E c \in RaceVerdicts : CaptchaReturns(r, c)
        \/ SelectReturns(r)
        \/ InsertReturns(r)

Spec == Init /\ [][Next]_vars

\* One invocation, every request shape.
NextGate ==
    \/ \E q \in GateRequests : Receive(1, q)
    \/ \E f \in FetchResults : FetchReturns(1, f)
    \/ \E c \in GateVerdicts : CaptchaReturns(1, c)
    \/ SelectReturns(1)
    \/ InsertReturns(1)

SpecGate == Init /\ [][NextGate]_vars

\* One invocation, every verdict shape.
NextCaptcha ==
    \/ \E q \in CaptchaRequests : Receive(1, q)
    \/ \E f \in FetchResults : FetchReturns(1, f)
    \/ \E c \in CaptchaVerdicts : CaptchaReturns(1, c)
    \/ SelectReturns(1)
    \/ InsertReturns(1)

SpecCaptcha == Init /\ [][NextCaptcha]_vars

(***************************************************************************)
(* Properties.                                                             *)
(***************************************************************************)
\* the honeypot of the request is empty: absent or the empty string
emptyHoneypot(q) == q.hasBody /\ (q.honeypot = Undef \/ q.honeypot = Str(""))

\* the honeypot of the request is a non-empty string
filledHoneypot(q) == q.hasBody /\ q.honeypot.t = "string" /\ q.honeypot.s # ""

sameEmail(a, b) == userEmailOf(req[a]) = userEmailOf(req[b])

\* answered 200 by the insert path: the success response to a request whose
\* honeypot is empty
answered200ByInsert(r) ==
    pc[r] = "done" /\ res[r] = Success /\ emptyHoneypot(req[r])

\* the store answered the insert of r from its unique constraint alone
insertDecidedByConstraint(r) ==
    insertError[r].state = "returned" /\ insertError[r].code \in {"", "23505"}

\* C1: under every interleaving, the store holds at most one row per
\* user_email, and no two requests with the same user_email have both been
\* answered 200 by the insert path.
C1_OneAcceptedPerEmail ==
    /\ \A x, y \in diagnostic_submissions : x.user_email = y.user_email => x = y
    /\ \A a, b \in Reqs :
          (a # b /\ sameEmail(a, b) /\ answered200ByInsert(a)) => ~answered200ByInsert(b)

\* two requests with the same user_email have both completed their insert,
\* and one was answered 200
C1_Witness ==
    \E a, b \in Reqs :
        /\ a # b /\ sameEmail(a, b)
        /\ pc[a] = "done" /\ pc[b] = "done"
        /\ insertError[a].state = "returned" /\ insertError[b].state = "returned"
        /\ answered200ByInsert(a)
        /\ Cardinality(rowsWith(userEmailOf(req[a]))) = 1

\* a and b raced: they carry the same user_email, the first of their inserts
\* completed while the other had done its select and awaited its own insert,
\* the store decided both inserts from its unique constraint, and no third
\* request inserted that user_email
raced(a, b) ==
    /\ a # b /\ sameEmail(a, b)
    /\ pc[a] = "done" /\ pc[b] = "done"
    /\ b \in rivals[a]
    /\ existingUser[a].data = "null" /\ existingUser[b].data = "null"
    /\ insertDecidedByConstraint(a) /\ insertDecidedByConstraint(b)
    /\ \A o \in Reqs \ {a, b} : ~(sameEmail(o, a) /\ accepted(insertError[o]))

\* C2: of two requests with the same user_email that both did the soft
\* select before either did its insert, exactly one is answered 200 and the
\* other 409 with the message of the soft check; neither is answered 500.
C2_RaceOneWinner ==
    \A a, b \in Reqs :
        raced(a, b) =>
            /\ res[a].status # 500 /\ res[b].status # 500
            /\ \/ res[a] = Success /\ res[b].status = 409 /\ res[b].body = Conflict.body
               \/ res[b] = Success /\ res[a].status = 409 /\ res[a].body = Conflict.body

\* a race was run, and the request that inserted second lost it
C2_Witness ==
    \E a, b \in Reqs :
        /\ raced(a, b)
        /\ accepted(insertError[a])
        /\ insertError[b].code = "23505"
        /\ existingUser[a].error = FALSE /\ existingUser[b].error = FALSE

\* C3: a POST request with a non-empty honeypot is answered 200
\* {success:true} whatever its user_email, its token and the store hold; the
\* verifier is not called, the store is neither read nor written.
C3_HoneypotSilentSuccess ==
    \A r \in Reqs :
        (pc[r] # "new" /\ req[r].method = "POST" /\ filledHoneypot(req[r])) =>
            /\ pc[r] = "done"
            /\ res[r] = Success
            /\ calls[r] = NoCalls
            /\ captchaResponse[r] = NoCaptchaResponse
            /\ captchaData[r] = NoCaptchaData
            /\ existingUser[r] = NoExistingUser
            /\ insertError[r] = NoInsertError
            /\ req[r].formData \notin diagnostic_submissions
                  \/ \E o \in Reqs \ {r} : accepted(insertError[o])
                                             /\ req[o].formData = req[r].formData

\* a honeypot request was answered while the store held its user_email
C3_Witness ==
    \E r \in Reqs :
        /\ pc[r] = "done" /\ req[r].method = "POST" /\ filledHoneypot(req[r])
        /\ rowsWith(userEmailOf(req[r])) # {}
        /\ res[r] = Success

\* C4: a request whose method is not POST is answered 405 {error:'Method
\* not allowed'} whatever its body, an absent body included, with no
\* verifier call and no store select or insert.
C4_NonPostIs405 ==
    \A r \in Reqs :
        (pc[r] # "new" /\ req[r].method # "POST") =>
            /\ pc[r] = "done"
            /\ res[r] = MethodNotAllowed
            /\ calls[r] = NoCalls
            /\ captchaResponse[r] = NoCaptchaResponse
            /\ captchaData[r] = NoCaptchaData
            /\ existingUser[r] = NoExistingUser
            /\ insertError[r] = NoInsertError

\* a request with another method and no body was answered
C4_Witness ==
    \E r \in Reqs :
        pc[r] = "done" /\ req[r].method = "GET" /\ ~req[r].hasBody /\ res[r].status = 405

\* the request passed the CAPTCHA gate: the handler went on to the select
passedCaptcha(r) == calls[r].select > 0

\* a verdict with a boolean success, a score in 0.0..1.0 and an action string
wellFormedVerdict(c) ==
    /\ c.state = "json"
    /\ c.success \in {"true", "false"}
    /\ c.hasScore /\ c.score \in Scores
    /\ c.hasAction

\* C5: a request whose verdict has a boolean success, a score in 0.0..1.0
\* and an action string passes the CAPTCHA gate if and only if success is
\* true, score >= 0.5 and action is 'submit'; every failing verdict yields
\* 403 with the security-verification message.
C5_CaptchaGate ==
    \A r \in Reqs :
        wellFormedVerdict(captchaData[r]) =>
            /\ passedCaptcha(r) <=>
                  /\ captchaData[r].success = "true"
                  /\ captchaData[r].score >= 500
                  /\ captchaData[r].action = "submit"
            /\ ~passedCaptcha(r) =>
                  /\ pc[r] = "done"
                  /\ res[r] = SecurityVerificationFailed
                  /\ calls[r].insert = 0

\* a verdict with score exactly 0.5 passed the gate
C5_Witness ==
    \E r \in Reqs :
        /\ captchaData[r] = Verdict("true", TRUE, 500, TRUE, "submit")
        /\ passedCaptcha(r)

\* C6 (as claimed): no request causes a store select or insert unless its
\* verdict has success true, carries a score >= 0.5 and has action 'submit',
\* for every verdict shape, one without score or action included.
C6_StoreOnlyAfterFullVerdict ==
    \A r \in Reqs :
        (calls[r].select > 0 \/ calls[r].insert > 0) =>
            /\ captchaData[r].state = "json"
            /\ captchaData[r].success = "true"
            /\ captchaData[r].hasScore /\ captchaData[r].score >= 500
            /\ captchaData[r].hasAction /\ captchaData[r].action = "submit"

\* the substring of s after its first c
afterFirst(s, c) == SubSeq(s, IndexFrom(s, c, 1) + 1, Len(s))

noAt(s) == \A i \in 1..Len(s) : CharAt(s, i) # "@"

\* C7: a POST request with an empty honeypot whose formData is absent or
\* whose user_email is absent, empty or without '@' is answered 400
\* {error:'Invalid email address.'}; neither the verifier nor the store is
\* contacted.
C7_InvalidEmailIs400 ==
    \A r \in Reqs :
        (/\ pc[r] # "new" /\ req[r].method = "POST" /\ emptyHoneypot(req[r])
         /\ \/ ~req[r].hasFormData
            \/ req[r].formData.user_email = Undef
            \/ req[r].formData.user_email.t = "string"
                  /\ noAt(req[r].formData.user_email.s)) =>
            /\ pc[r] = "done"
            /\ res[r] = InvalidEmail
            /\ calls[r] = NoCalls
            /\ captchaResponse[r] = NoCaptchaResponse
            /\ captchaData[r] = NoCaptchaData
            /\ existingUser[r] = NoExistingUser
            /\ insertError[r] = NoInsertError

\* a request with a non-empty user_email without '@' was answered
C7_Witness ==
    \E r \in Reqs :
        /\ pc[r] = "done" /\ req[r].method = "POST" /\ emptyHoneypot(req[r])
        /\ req[r].hasFormData
        /\ req[r].formData.user_email = Str("plainaddress")
        /\ res[r].status = 400

\* the domain as the claim has it: the address after '@', lower-cased
claimedDomain(email) == toLowerCase(afterFirst(email, "@"))

claimedBlocked(email) ==
    \/ \E i \in 1..Len(BLOCKED_DOMAINS) : claimedDomain(email) = BLOCKED_DOMAINS[i]
    \/ \E i \in 1..Len(BLOCKED_TLDS) : endsWith(claimedDomain(email), BLOCKED_TLDS[i])

\* C8 (as claimed): a POST request with an empty honeypot and a user_email
\* with at least one '@', several included, is answered 400 with the
\* professional-email message if and only if the address after '@',
\* lower-cased, equals a disposable domain or ends with a blocked TLD.
C8_BlockedIffDomainAfterAt ==
    \A r \in Reqs :
        (/\ pc[r] # "new" /\ req[r].method = "POST" /\ emptyHoneypot(req[r])
         /\ req[r].hasFormData
         /\ req[r].formData.user_email.t = "string"
         /\ ~noAt(req[r].formData.user_email.s)) =>
            (res[r] = ProfessionalEmail <=> claimedBlocked(req[r].formData.user_email.s))

\* the store answered the calls r made: the select did not reject, and the
\* insert, if made, was decided by the unique constraint
storeAnswered(r) ==
    /\ existingUser[r].state = "returned"
    /\ calls[r].insert > 0 => insertDecidedByConstraint(r)

\* C9: once a request with user_email e has been answered 200 by the
\* insert, a request with e that starts afterwards and passes gates 1-5 is
\* answered 409 with the duplicate-email message and adds nothing to the
\* store.
C9_SecondSubmissionIs409 ==
    \A r \in Reqs :
        (priorAccepted[r] /\ pc[r] = "done" /\ passedCaptcha(r) /\ storeAnswered(r)) =>
            /\ res[r].status = 409
            /\ res[r].body = Conflict.body
            /\ ~accepted(insertError[r])
            /\ Cardinality(rowsWith(userEmailOf(req[r]))) = 1

\* the same submission sent twice in sequence: 200, then 409 from the select
C9_Witness ==
    \E a, b \in Reqs :
        /\ a # b /\ req[a] = req[b]
        /\ answered200ByInsert(a)
        /\ priorAccepted[b] /\ pc[b] = "done"
        /\ existingUser[b] = [state |-> "returned", data |-> "row", error |-> FALSE]
        /\ res[b] = Conflict
        /\ calls[b].insert = 0

\* C10: an insert the store refuses with an error other than the unique
\* violation is answered 500 {error:'Internal server error'}; the body
\* carries nothing of the store's error, and the answer is never 200 or 409.
C10_OtherInsertErrorIs500 ==
    \A r \in Reqs :
        (\/ insertError[r].state = "threw"
         \/ insertError[r].state = "returned" /\ insertError[r].code \notin {"", "23505"}) =>
            /\ pc[r] = "done"
            /\ res[r] = [status |-> 500, body |-> [error |-> "Internal server error"]]
            /\ res[r].body.error \notin {insertError[r].code, insertError[r].message}

\* an insert was refused with a not-null violation
C10_Witness ==
    \E r \in Reqs :
        /\ pc[r] = "done"
        /\ insertError[r].state = "returned" /\ insertError[r].code = "23502"
        /\ res[r].status = 500

\* the outbound calls of r that failed
verifyFailed(r) == captchaResponse[r] = "rejected" \/ captchaData[r].state = "threw"

selectFailed(r) ==
    existingUser[r].state = "threw"
        \/ (existingUser[r].state = "returned" /\ existingUser[r].error)

insertFailed(r) ==
    insertError[r].state = "threw"
        \/ (insertError[r].state = "returned" /\ insertError[r].code # "")

errorResponse(x) == x.status \in {400, 403, 405, 409, 500}

\* C11 (as claimed): once an outbound call of a request has failed - the
\* verifier call, the soft-check select or the insert - the request makes no
\* later outbound call, repeats none, and ends with an error response, never
\* with 200.
C11_FailedCallIsTerminal ==
    \A r \in Reqs :
        /\ calls[r].verify <= 1 /\ calls[r].json <= 1
        /\ calls[r].select <= 1 /\ calls[r].insert <= 1
        /\ verifyFailed(r) =>
              calls[r].select = 0 /\ calls[r].insert = 0
                  /\ pc[r] = "done" /\ errorResponse(res[r])
        /\ selectFailed(r) =>
              calls[r].insert = 0 /\ pc[r] = "done" /\ errorResponse(res[r])
        /\ insertFailed(r) => pc[r] = "done" /\ errorResponse(res[r])

\* the response x to request q is one sent before or instead of an accepted
\* insert: an error, or the 200 of the honeypot
nonInsertResponse(q, x) == errorResponse(x) \/ (x = Success /\ filledHoneypot(q))

\* C12: the store's rows change only in the insert step of a request: the
\* step adds one row, equal to the request's formData, to the rows already
\* there; no row is ever changed or removed; and the step in which a request
\* gets a response other than the 200 of its insert leaves the store as it
\* was.
C12_StoreChangesOnlyByInsert ==
    [][ /\ diagnostic_submissions \subseteq diagnostic_submissions'
        /\ diagnostic_submissions' # diagnostic_submissions =>
              \E r \in Reqs :
                  /\ pc[r] = "awaitInsert" /\ pc'[r] = "done"
                  /\ calls[r].insert = 1
                  /\ res'[r] = Success
                  /\ req[r].formData \notin diagnostic_submissions
                  /\ diagnostic_submissions' =
                        diagnostic_submissions \cup {req[r].formData}
                  /\ \A o \in Reqs \ {r} : pc'[o] = pc[o] /\ res'[o] = res[o]
        /\ \A r \in Reqs :
              (res[r] = NoResponse /\ nonInsertResponse(req'[r], res'[r])) =>
                  diagnostic_submissions' = diagnostic_submissions
      ]_vars

\* the store holds the formData of an accepted request and nothing else,
\* after a second request with the same user_email and other fields ended
\* with an error
C12_Witness ==
    \E a, b \in Reqs :
        /\ a # b /\ sameEmail(a, b) /\ req[a].formData # req[b].formData
        /\ acceptedByInsert(a)
        /\ pc[b] = "done" /\ errorResponse(res[b]) /\ calls[b].insert = 1
        /\ diagnostic_submissions = {req[a].formData}

\* the response of the first of gates 1-4 that request q fails, NoResponse
\* when it passes them all
firstFailure(q) ==
    IF q.method # "POST" THEN MethodNotAllowed
    ELSE IF filledHoneypot(q) THEN Success
    ELSE IF emailInvalid(userEmailOf(q)) THEN InvalidEmail
    ELSE IF emailBlocked(userEmailOf(q).s) THEN ProfessionalEmail
    ELSE NoResponse

\* firstFailure tabulated over the requests of the specifications
FirstFailureOf ==
    [q \in RaceRequests \cup GateRequests \cup CaptchaRequests |-> firstFailure(q)]

\* a request the gates are defined on: one with a body (or stopped by the
\* method gate before the body is read) whose user_email is a string or absent
gated(q) == (q.hasBody \/ q.method # "POST") /\ ~emailThrows(userEmailOf(q))

\* C13: the gates run in the order method, honeypot, email shape, blocked
\* domain, CAPTCHA, soft select, insert, and the response is that of the
\* first gate that fails; the verifier is never called for a request that
\* fails gates 1-4, the store is never read after a CAPTCHA failure, and no
\* insert is attempted once the select has found a row.
C13_FirstFailingGateAnswers ==
    \A r \in Reqs :
        (pc[r] # "new" /\ gated(req[r])) =>
            /\ FirstFailureOf[req[r]] # NoResponse =>
                  /\ pc[r] = "done"
                  /\ res[r] = FirstFailureOf[req[r]]
                  /\ calls[r] = NoCalls
            /\ FirstFailureOf[req[r]] = NoResponse => calls[r].verify = 1
            /\ (captchaData[r].state = "json" /\ captchaFails(captchaData[r])) =>
                  /\ pc[r] = "done"
                  /\ res[r] = SecurityVerificationFailed
                  /\ calls[r].select = 0 /\ calls[r].insert = 0
            /\ calls[r].select > 0 =>
                  captchaData[r].state = "json" /\ ~captchaFails(captchaData[r])
            /\ existingUser[r].data = "row" =>
                  /\ pc[r] = "done"
                  /\ res[r] = Conflict
                  /\ calls[r].insert = 0
                  /\ insertError[r] = NoInsertError
            /\ calls[r].insert > 0 =>
                  existingUser[r].state = "returned" /\ existingUser[r].data = "null"

\* a request that fails gates 1, 2 and 3 was answered by gate 1
C13_Witness ==
    \E a \in Reqs :
        /\ pc[a] = "done" /\ req[a].method = "GET" /\ filledHoneypot(req[a])
        /\ emailInvalid(userEmailOf(req[a]))
        /\ res[a] = MethodNotAllowed
        /\ calls[a] = NoCalls

\* C14: a request with an empty honeypot is answered 200 {success:true} if
\* and only if its own insert was accepted by the store: success is never
\* reported for a request whose row is not in the store, and a request whose
\* insert was accepted is never answered with an error.
C14_SuccessIffInsertAccepted ==
    \A r \in Reqs :
        (pc[r] # "new" /\ emptyHoneypot(req[r])) =>
            /\ res[r] = Success <=> accepted(insertError[r])
            /\ res[r].status = 200 =>
                  /\ res[r] = Success
                  /\ pc[r] = "done"
                  /\ calls[r].insert = 1
                  /\ req[r].formData \in diagnostic_submissions
            /\ accepted(insertError[r]) => ~errorResponse(res[r])

\* one request was answered 200 with its row stored, and another with the
\* same user_email had its insert refused and was answered 409
C14_Witness ==
    \E a, b \in Reqs :
        /\ a # b /\ sameEmail(a, b)
        /\ emptyHoneypot(req[a]) /\ emptyHoneypot(req[b])
        /\ pc[a] = "done" /\ res[a] = Success /\ accepted(insertError[a])
        /\ req[a].formData \in diagnostic_submissions
        /\ pc[b] = "done" /\ insertError[b].code = "23505" /\ res[b].status = 409
        /\ req[b].formData \notin diagnostic_submissions

\* the documented responses
DocumentedResponses ==
    { Success, InvalidEmail, ProfessionalEmail, SecurityVerificationFailed,
      MethodNotAllowed, Conflict, InternalError }

\* the invocation is waiting for an outbound call, or for the read of the
\* verifier's response body, to return or fail
awaitingCall(r) == pc[r] \in {"awaitCaptcha", "awaitJson", "awaitSelect", "awaitInsert"}

\* C15 (as claimed): every request, whatever its method and body, a POST
\* with no body included, that is not waiting for an outbound call has
\* received one response from the handler, and it is a documented one.
C15_EveryRequestAnswered ==
    \A r \in Reqs :
        (pc[r] # "new" /\ ~awaitingCall(r)) =>
            pc[r] = "done" /\ res[r] \in DocumentedResponses

====
